---------------------------- MODULE Spec2Model ----------------------------
(***************************************************************************)
(* Model of the awards dashboard (src/src/components/ui/button.jsx):       *)
(* the CSV load, the record normalizer, the year index and range           *)
(* resolution, the deactivation assessor, the query pipeline and the       *)
(* export serializer.                                                      *)
(*                                                                         *)
(* JavaScript strings are sequences of one-character strings.  Numbers are *)
(* fixed-point integers counting hundredths (Scale), which represents      *)
(* every count and every two-decimal rendering exactly; binary             *)
(* floating-point rounding is outside the model.                           *)
(***************************************************************************)
EXTENDS Integers, Sequences, FiniteSets, TLC

\* ------------------------------------------------------------------ text

\* The characters of the model's texts, in UTF-16 code unit order.
Alphabet ==
    <<"\n"," ","\"","(",")",",","-",".","/",
      "0","1","2","3","4","5","6","7","8","9",
      "A","B","C","D","E","F","G","H","I","J","K","L","M",
      "N","O","P","Q","R","S","T","U","V","W","X","Y","Z",
      "a","b","c","d","e","f","g","h","i","j","k","l","m",
      "n","o","p","q","r","s","t","u","v","w","x","y","z">>

CharCodes == [c \in {Alphabet[i] : i \in 1..Len(Alphabet)} |->
                 CHOOSE i \in 1..Len(Alphabet) : Alphabet[i] = c]

CharCode(c) == CharCodes[c]

DigitChars == {"0","1","2","3","4","5","6","7","8","9"}

UpperChars ==
    {"A","B","C","D","E","F","G","H","I","J","K","L","M",
     "N","O","P","Q","R","S","T","U","V","W","X","Y","Z"}

DigitVal(c) == CharCode(c) - CharCode("0")

DigitChar(d) == Alphabet[CharCode("0") + d]

\* String.prototype.toLowerCase
toLowerCase(s) ==
    [i \in 1..Len(s) |->
        IF s[i] \in UpperChars
        THEN Alphabet[CharCode(s[i]) + (CharCode("a") - CharCode("A"))]
        ELSE s[i]]

IsSpace(c) == c \in {" ", "\n"}

RECURSIVE trimStart(_)
trimStart(s) == IF s # <<>> /\ IsSpace(Head(s)) THEN trimStart(Tail(s)) ELSE s

RECURSIVE trimEnd(_)
trimEnd(s) ==
    IF s # <<>> /\ IsSpace(s[Len(s)]) THEN trimEnd(SubSeq(s, 1, Len(s) - 1)) ELSE s

\* String.prototype.trim
trim(s) == trimEnd(trimStart(s))

\* String.prototype.includes
includes(s, needle) ==
    \E i \in 0..(Len(s) - Len(needle)) : SubSeq(s, i + 1, i + Len(needle)) = needle

\* indexOf with a start position, 1-based; 0 when there is no occurrence.
IndexFrom(s, c, from) ==
    IF \E i \in from..Len(s) : s[i] = c
    THEN CHOOSE i \in from..Len(s) : s[i] = c /\ \A j \in from..(i - 1) : s[j] # c
    ELSE 0

\* Array.prototype.indexOf, 0-based; -1 when absent.
indexOf(arr, x) ==
    IF \E i \in 1..Len(arr) : arr[i] = x
    THEN (CHOOSE i \in 1..Len(arr) : arr[i] = x /\ \A j \in 1..(i - 1) : arr[j] # x) - 1
    ELSE -1

\* Array.prototype.slice(lo, hi) on 0-based positions, hi exclusive.
slice(arr, lo, hi) == SubSeq(arr, lo + 1, hi)

\* Comparison of strings by code units (the default Array.prototype.sort order).
RECURSIVE StrLess(_, _)
StrLess(a, b) ==
    IF b = <<>> THEN FALSE
    ELSE IF a = <<>> THEN TRUE
    ELSE IF Head(a) # Head(b) THEN CharCode(Head(a)) < CharCode(Head(b))
    ELSE StrLess(Tail(a), Tail(b))

\* Array.from(set).sort() for a set of distinct strings.
RECURSIVE SortedStrings(_)
SortedStrings(S) ==
    IF S = {} THEN <<>>
    ELSE LET m == CHOOSE x \in S : \A y \in S \ {x} : StrLess(x, y)
         IN <<m>> \o SortedStrings(S \ {m})

\* A text as a TLA+ string (for messages that are only displayed).
RECURSIVE Str(_)
Str(s) == IF s = <<>> THEN "" ELSE Head(s) \o Str(Tail(s))

\* ---------------------------------------------------------------- numbers

\* Numbers count hundredths: the number 3 is 3 * Scale.
Scale == 10 * 10

Abs(x) == IF x < 0 THEN -x ELSE x

AllDigits(s) == \A i \in 1..Len(s) : s[i] \in DigitChars

RECURSIVE DigitsValue(_)
DigitsValue(s) ==
    IF s = <<>> THEN 0 ELSE DigitsValue(SubSeq(s, 1, Len(s) - 1)) * 10 + DigitVal(s[Len(s)])

RECURSIVE NatToText(_)
NatToText(n) ==
    IF n < 10 THEN <<DigitChar(n)>> ELSE NatToText(n \div 10) \o <<DigitChar(n % 10)>>

\* Number(string): [nan, v].  Decimal literals with an optional minus sign and at
\* most two fraction digits are represented exactly; exponent, hexadecimal and
\* Infinity literals and longer fractions do not occur in the model's inputs.
Number(s) ==
    LET t    == trim(s)
        neg  == t # <<>> /\ Head(t) = "-"
        body == IF neg THEN Tail(t) ELSE t
        dot  == IndexFrom(body, ".", 1)
        ip   == IF dot = 0 THEN body ELSE SubSeq(body, 1, dot - 1)
        fp   == IF dot = 0 THEN <<>> ELSE SubSeq(body, dot + 1, Len(body))
        f2   == SubSeq(fp \o <<"0","0">>, 1, 2)
        mag  == DigitsValue(ip) * Scale + DigitsValue(f2)
    IN IF t = <<>> THEN [nan |-> FALSE, v |-> 0]
       ELSE IF AllDigits(ip) /\ AllDigits(fp) /\ Len(ip) + Len(fp) > 0
            THEN [nan |-> FALSE, v |-> IF neg THEN -mag ELSE mag]
            ELSE [nan |-> TRUE, v |-> 0]

\* Number.prototype.toString of a number of the model.
NumToText(h) ==
    LET a    == Abs(h)
        frac == a % Scale
        d1   == frac \div 10
        d2   == frac % 10
    IN (IF h < 0 THEN <<"-">> ELSE <<>>)
       \o NatToText(a \div Scale)
       \o (IF frac = 0 THEN <<>>
           ELSE IF d2 = 0 THEN <<".", DigitChar(d1)>>
           ELSE <<".", DigitChar(d1), DigitChar(d2)>>)

\* (num / den).toFixed(1) and (num / den).toFixed(2), den > 0: the nearest
\* multiple of the last place, a tie going away from zero.
Rounded(num, den, m) == (2 * Abs(num) * m + den) \div (2 * den)

toFixed1(num, den) ==
    LET r == Rounded(num, den, 10)
    IN (IF num < 0 THEN <<"-">> ELSE <<>>)
       \o NatToText(r \div 10) \o <<".", DigitChar(r % 10)>>

toFixed2(num, den) ==
    LET r == Rounded(num, den, 100)
    IN (IF num < 0 THEN <<"-">> ELSE <<>>)
       \o NatToText(r \div 100) \o <<".", DigitChar((r \div 10) % 10), DigitChar(r % 10)>>

\* ------------------------------------------------------------ Papa.parse

Delimiter == ","

Newline == "\n"

QuoteChar == "\""

\* value.replace(/""/g, '"'): a doubled quote inside a quoted field is one quote.
RECURSIVE Unescape(_)
Unescape(s) ==
    IF Len(s) >= 2 /\ s[1] = QuoteChar /\ s[2] = QuoteChar
    THEN <<QuoteChar>> \o Unescape(SubSeq(s, 3, Len(s)))
    ELSE IF s = <<>> THEN <<>>
    ELSE <<Head(s)>> \o Unescape(Tail(s))

\* The number of blanks between a closing quote at qs and the position index,
\* when nothing else lies between them.
extraSpaces(input, qs, index) ==
    LET between == SubSeq(input, qs + 1, index - 1)
    IN IF index # 0 /\ between # <<>> /\ trim(between) = <<>> THEN Len(between) ELSE 0

\* The parser's loop: cursor is the position of the next field, row the fields of
\* the current line, data the finished lines.  A field that opens with the quote
\* character runs to its closing quote (QuotedField); any other field runs to the
\* next delimiter or line break.
RECURSIVE ParseFrom(_, _, _, _)
RECURSIVE QuotedField(_, _, _, _, _)
ParseFrom(input, cursor, row, data) ==
    LET n           == Len(input)
        nextDelim   == IndexFrom(input, Delimiter, cursor)
        nextNewline == IndexFrom(input, Newline, cursor)
    IN IF cursor <= n /\ input[cursor] = QuoteChar
       THEN QuotedField(input, cursor + 1, cursor, row, data)
       ELSE IF nextDelim # 0 /\ (nextNewline = 0 \/ nextDelim < nextNewline)
       THEN ParseFrom(input, nextDelim + 1,
                      Append(row, SubSeq(input, cursor, nextDelim - 1)), data)
       ELSE IF nextNewline # 0
       THEN ParseFrom(input, nextNewline + 1, <<>>,
                      Append(data, Append(row, SubSeq(input, cursor, nextNewline - 1))))
       ELSE Append(data, Append(row, SubSeq(input, cursor, n)))

\* start is the first character of the quoted value, quoteSearch the position the
\* search for the closing quote resumes after.
QuotedField(input, start, quoteSearch, row, data) ==
    LET n  == Len(input)
        qs == IndexFrom(input, QuoteChar, quoteSearch + 1)
    IN IF qs = 0
       THEN \* no closing quote: the rest of the input is the field, as it stands
            Append(data, Append(row, SubSeq(input, start, n)))
       ELSE IF qs = n
       THEN Append(data, Append(row, Unescape(SubSeq(input, start, qs - 1))))
       ELSE IF input[qs + 1] = QuoteChar
       THEN QuotedField(input, start, qs + 1, row, data)
       ELSE LET nextDelim   == IndexFrom(input, Delimiter, qs + 1)
                nextNewline == IndexFrom(input, Newline, qs + 1)
                checkIndex  == IF nextNewline = 0 \/ nextDelim = 0 THEN nextDelim
                               ELSE IF nextDelim < nextNewline THEN nextDelim
                               ELSE nextNewline
                spD         == extraSpaces(input, qs, checkIndex)
                spN         == extraSpaces(input, qs, nextNewline)
                value       == Unescape(SubSeq(input, start, qs - 1))
            IN IF qs + 1 + spD <= n /\ input[qs + 1 + spD] = Delimiter
               THEN ParseFrom(input, qs + 1 + spD + 1, Append(row, value), data)
               ELSE IF qs + 1 + spN <= n /\ input[qs + 1 + spN] = Newline
               THEN ParseFrom(input, qs + 1 + spN + 1, <<>>,
                              Append(data, Append(row, value)))
               ELSE \* a quote inside the value: keep looking for the closing one
                    QuotedField(input, start, qs + 1, row, data)

\* skipEmptyLines: true drops the lines that hold one empty field.
testEmptyLine(line) == Len(line) = 1 /\ line[1] = <<>>

\* header: true: a line becomes an object keyed by the header's fields; a field
\* beyond the header goes to __parsed_extra (which tidyRow never reads), a field
\* the line lacks is absent.  Header fields are distinct in the model's inputs.
RowObject(fields, line) ==
    LET m == IF Len(line) < Len(fields) THEN Len(line) ELSE Len(fields)
    IN [k \in {fields[j] : j \in 1..m} |->
           line[CHOOSE j \in 1..m : fields[j] = k /\ \A i \in (j + 1)..m : fields[i] # k]]

\* Papa.parse(text, { header: true, skipEmptyLines: true }).data
PapaParse(text) ==
    LET lines == IF text = <<>> THEN <<>>
                 ELSE SelectSeq(ParseFrom(text, 1, <<>>, <<>>), LAMBDA l : ~testEmptyLine(l))
    IN IF lines = <<>> THEN <<>>
       ELSE [i \in 1..(Len(lines) - 1) |-> RowObject(lines[1], lines[i + 1])]

\* ------------------------------------------------------ parsing & shaping

DEPT == <<"D","E","P","T">>

STATE_CONTROL_NUMBER ==
    <<"S","T","A","T","E"," ","C","O","N","T","R","O","L"," ","N","U","M","B","E","R">>

PROGRAM_TITLE == <<"P","R","O","G","R","A","M"," ","T","I","T","L","E">>

AWARD_TYPE == <<"A","W","A","R","D"," ","T","Y","P","E">>

\* /\d{4}-\d{2}/.test(k): four digits, a dash and two digits anywhere in k.
YearPattern(k) ==
    \E i \in 1..(Len(k) - 6) :
        /\ \A j \in i..(i + 3) : k[j] \in DigitChars
        /\ k[i + 4] = "-"
        /\ \A j \in (i + 5)..(i + 6) : k[j] \in DigitChars

\* row[name] || "": the field, or the empty string when the row lacks it.
Field(row, name) == IF name \in DOMAIN row THEN row[name] ELSE <<>>

\* Number(row[y] ?? 0) || 0
NumberOrZero(cell) == IF Number(cell).nan THEN 0 ELSE Number(cell).v

tidyRow(row) ==
    LET years == {k \in DOMAIN row : YearPattern(k)}
    IN [dept  |-> trim(Field(row, DEPT)),
        code  |-> trim(Field(row, STATE_CONTROL_NUMBER)),
        title |-> trim(Field(row, PROGRAM_TITLE)),
        award |-> trim(Field(row, AWARD_TYPE)),
        years |-> [y \in years |-> NumberOrZero(row[y])]]

parseCsvText(text) ==
    LET data == PapaParse(text)
    IN [i \in 1..Len(data) |-> tidyRow(data[i])]

\* uniq(arr): the non-empty strings of arr, each once, in order of first occurrence.
uniq(arr) ==
    LET firsts == {i \in 1..Len(arr) : arr[i] # <<>> /\ \A j \in 1..(i - 1) : arr[j] # arr[i]}
    IN SelectSeq([i \in 1..Len(arr) |-> IF i \in firsts THEN arr[i] ELSE <<>>],
                 LAMBDA x : x # <<>>)

Range(f) == {f[i] : i \in DOMAIN f}

\* row.years[y] || 0, row.years[y] ?? 0: a year the record lacks counts as 0.
YearValue(row, y) == IF y \in DOMAIN row.years THEN row.years[y] ELSE 0

RECURSIVE SumSeq(_)
SumSeq(vals) == IF vals = <<>> THEN 0 ELSE Head(vals) + SumSeq(Tail(vals))

\* array.join(sep) for an array of strings
RECURSIVE join(_, _)
join(arr, sep) ==
    IF arr = <<>> THEN <<>>
    ELSE IF Len(arr) = 1 THEN arr[1]
    ELSE arr[1] \o sep \o join(Tail(arr), sep)

\* ---------------------------------------- Rec Deactivation (last 5 years)

REC_MIN_TOTAL_5Y == 15

REC_MIN_AVG_5Y == 3

REC_MIN_PEAK_5Y == 3

\* (mutant) the first five labels instead of the last five
last5Of_first5(allYears_) ==
    SubSeq(allYears_, 1, IF Len(allYears_) > 5 THEN 5 ELSE Len(allYears_))

\* allYears.slice(-5)
last5Of(allYears_) ==
    SubSeq(allYears_, IF Len(allYears_) > 5 THEN Len(allYears_) - 4 ELSE 1, Len(allYears_))

assessRecDeact(row, allYears_) ==
    LET last5  == last5Of(allYears_)
        vals   == [i \in 1..Len(last5) |-> YearValue(row, last5[i])]
        total5 == SumSeq(vals)
        \* avg5 = total5 / last5.length, kept as the pair (total5, last5.length)
        zeros  == Cardinality({i \in 1..Len(vals) : vals[i] = 0})
        peak   == CHOOSE v \in Range(vals) : \A w \in Range(vals) : w <= v
        lowOverall == /\ total5 < REC_MIN_TOTAL_5Y * Scale
                      /\ total5 < REC_MIN_AVG_5Y * Scale * Len(last5)
        manyZeros  == zeros >= 3
        noPeak     == peak < REC_MIN_PEAK_5Y * Scale
        avgText    == Str(toFixed1(total5, Scale * Len(last5)))
        reasons ==
            (IF lowOverall
             THEN <<"5y total " \o Str(NumToText(total5)) \o " & avg " \o avgText
                    \o " (<" \o Str(NatToText(REC_MIN_TOTAL_5Y))
                    \o ", <" \o Str(NatToText(REC_MIN_AVG_5Y)) \o ")">>
             ELSE <<>>)
            \o (IF manyZeros THEN <<"zeros " \o Str(NatToText(zeros)) \o "/5">> ELSE <<>>)
            \o (IF noPeak
                THEN <<"max/year " \o Str(NumToText(peak))
                       \o " (<" \o Str(NatToText(REC_MIN_PEAK_5Y)) \o ")">>
                ELSE <<>>)
    IN IF Len(last5) = 0 THEN [flag |-> FALSE, reason |-> "No years"]
       ELSE IF lowOverall \/ manyZeros \/ noPeak
       THEN [flag |-> TRUE,
             reason |-> IF Len(reasons) = 1 THEN reasons[1]
                        ELSE IF Len(reasons) = 2 THEN reasons[1] \o "; " \o reasons[2]
                        ELSE reasons[1] \o "; " \o reasons[2] \o "; " \o reasons[3]]
       ELSE [flag |-> FALSE,
             reason |-> "5y total " \o Str(NumToText(total5)) \o ", avg " \o avgText
                        \o ", max " \o Str(NumToText(peak))
                        \o ", zeros " \o Str(NatToText(zeros))]

\* ------------------------------------------------- year index and range

\* A range end that was never set (null).
NULL == <<"null">>

\* available years: the labels of all records, sorted
allYearsOf(rows_) ==
    SortedStrings(UNION {DOMAIN rows_[i].years : i \in 1..Len(rows_)})

\* !x for a range end: null and the empty string are falsy
Falsy(x) == x = NULL \/ x = <<>>

\* (mutant) the slice from the start position to the end position, not swapped
visibleYearsOf_noSwap(allYears_, rangeStart_, rangeEnd_) ==
    LET i0 == indexOf(allYears_, rangeStart_)
        i1 == indexOf(allYears_, rangeEnd_)
    IN IF Len(allYears_) = 0 \/ Falsy(rangeStart_) \/ Falsy(rangeEnd_) THEN allYears_
       ELSE IF i0 = -1 \/ i1 = -1 THEN allYears_
       ELSE slice(allYears_, i0, i1 + 1)

visibleYearsOf(allYears_, rangeStart_, rangeEnd_) ==
    LET i0 == indexOf(allYears_, rangeStart_)
        i1 == indexOf(allYears_, rangeEnd_)
        lo == IF i0 <= i1 THEN i0 ELSE i1
        hi == IF i0 <= i1 THEN i1 ELSE i0
    IN IF Len(allYears_) = 0 \/ Falsy(rangeStart_) \/ Falsy(rangeEnd_) THEN allYears_
       ELSE IF i0 = -1 \/ i1 = -1 THEN allYears_
       ELSE slice(allYears_, lo, hi + 1)

\* (mutant) the effect without its test that the range was never set
rangeInitEffect_everyRender(rows_, allYears_, rangeStart_, rangeEnd_) ==
    IF Len(rows_) # 0 /\ Len(allYears_) # 0
    THEN <<allYears_[1], allYears_[Len(allYears_)]>>
    ELSE <<rangeStart_, rangeEnd_>>

\* The range initialisation effect: the pair (rangeStart, rangeEnd) it leaves.
rangeInitEffect(rows_, allYears_, rangeStart_, rangeEnd_) ==
    IF Len(rows_) # 0 /\ Len(allYears_) # 0 /\ (rangeStart_ = NULL \/ rangeEnd_ = NULL)
    THEN <<allYears_[1], allYears_[Len(allYears_)]>>
    ELSE <<rangeStart_, rangeEnd_>>

\* -------------------------------------------------------- main pipeline

All == <<"A","l","l">>

totalRangeKey == <<"t","o","t","a","l","R","a","n","g","e">>

avgPerYearKey == <<"a","v","g","P","e","r","Y","e","a","r">>

\* (mutant) the assessment made over the visible years
attach_overVisibleYears(r, visibleYears_, allYears_) ==
    LET yearCount  == IF Len(visibleYears_) > 1 THEN Len(visibleYears_) ELSE 1
        totalRange == SumSeq([i \in 1..Len(visibleYears_) |-> YearValue(r, visibleYears_[i])])
        deact      == assessRecDeact(r, visibleYears_)
    IN [dept |-> r.dept, code |-> r.code, title |-> r.title, award |-> r.award,
        years |-> r.years,
        totalRange |-> totalRange,
        avgPerYear |-> [num |-> totalRange, den |-> yearCount],
        recDeact |-> deact.flag,
        recDeactReason |-> deact.reason]

\* attach computed total (range), avg/yr, and Rec Deact flag/reason.  avgPerYear
\* is totalRange / yearCount, kept as that fraction.
attach(r, visibleYears_, allYears_) ==
    LET yearCount  == IF Len(visibleYears_) > 1 THEN Len(visibleYears_) ELSE 1
        totalRange == SumSeq([i \in 1..Len(visibleYears_) |-> YearValue(r, visibleYears_[i])])
        deact      == assessRecDeact(r, allYears_)
    IN [dept |-> r.dept, code |-> r.code, title |-> r.title, award |-> r.award,
        years |-> r.years,
        totalRange |-> totalRange,
        avgPerYear |-> [num |-> totalRange, den |-> yearCount],
        recDeact |-> deact.flag,
        recDeactReason |-> deact.reason]

\* getVal(row): the sort key's value, as a fraction
getVal(row, sortKey_) ==
    IF sortKey_ = totalRangeKey THEN [num |-> row.totalRange, den |-> 1]
    ELSE IF sortKey_ = avgPerYearKey THEN row.avgPerYear
    ELSE [num |-> YearValue(row, sortKey_), den |-> 1]

\* The comparator: av - bv ascending, bv - av descending (the sign is what counts).
compareRows(a, b, sortKey_, sortDir_) ==
    LET av == getVal(a, sortKey_)
        bv == getVal(b, sortKey_)
        d  == av.num * bv.den - bv.num * av.den
    IN IF sortDir_ = "asc" THEN d ELSE -d

\* (mutant) an unstable sort: x is placed before the elements that compare equal
insertSorted_unstable(sorted, x, sortKey_, sortDir_) ==
    LET after == {i \in 1..Len(sorted) : compareRows(sorted[i], x, sortKey_, sortDir_) >= 0}
        p     == IF after = {} THEN Len(sorted) + 1
                 ELSE CHOOSE i \in after : \A j \in after : i <= j
    IN SubSeq(sorted, 1, p - 1) \o <<x>> \o SubSeq(sorted, p, Len(sorted))

\* Array.prototype.sort with a comparator: a stable sort.  x is placed before
\* the first element that compares greater than it.
insertSorted(sorted, x, sortKey_, sortDir_) ==
    LET after == {i \in 1..Len(sorted) : compareRows(sorted[i], x, sortKey_, sortDir_) > 0}
        p     == IF after = {} THEN Len(sorted) + 1
                 ELSE CHOOSE i \in after : \A j \in after : i <= j
    IN SubSeq(sorted, 1, p - 1) \o <<x>> \o SubSeq(sorted, p, Len(sorted))

RECURSIVE sortRows(_, _, _)
sortRows(arr, sortKey_, sortDir_) ==
    IF arr = <<>> THEN <<>>
    ELSE insertSorted(sortRows(SubSeq(arr, 1, Len(arr) - 1), sortKey_, sortDir_),
                      arr[Len(arr)], sortKey_, sortDir_)

\* if (dept !== "All") out = out.filter((r) => r.dept === dept)
filterDept(out, dept_) ==
    IF dept_ # All THEN SelectSeq(out, LAMBDA r : r.dept = dept_) ELSE out

\* if (award !== "All") out = out.filter((r) => r.award === award)
filterAward(out, award_) ==
    IF award_ # All THEN SelectSeq(out, LAMBDA r : r.award = award_) ELSE out

matchesNeedle(r, needle) ==
    \/ includes(toLowerCase(r.title), needle)
    \/ includes(toLowerCase(r.award), needle)
    \/ includes(toLowerCase(r.code), needle)

\* the keyword search: the needle is the query in lower case, not trimmed
filterQuery(out, q_) ==
    IF trim(q_) # <<>>
    THEN SelectSeq(out, LAMBDA r : matchesNeedle(r, toLowerCase(q_)))
    ELSE out

attachAll(out, visibleYears_, allYears_) ==
    [i \in 1..Len(out) |-> attach(out[i], visibleYears_, allYears_)]

\* if toggle is on, keep only flagged rows
filterFlagged(out, recDeactOnly_) ==
    IF recDeactOnly_ THEN SelectSeq(out, LAMBDA r : r.recDeact) ELSE out

\* Stages 1 to 5 of the pipeline: the filters (rows.filter(Boolean) keeps every
\* record), the attached aggregates and the flagged-only filter.
preSort(rows_, dept_, award_, q_, visibleYears_, recDeactOnly_, allYears_) ==
    filterFlagged(
        attachAll(filterQuery(filterAward(filterDept(rows_, dept_), award_), q_),
                  visibleYears_, allYears_),
        recDeactOnly_)

\* top-N: out.slice(0, n) with n = out.length for "All", Number(topN) otherwise
topNSlice(out, topN_) ==
    IF topN_ = All \/ Number(topN_).v \div Scale >= Len(out) THEN out
    ELSE slice(out, 0, Number(topN_).v \div Scale)

\* (mutant) rows.sort(...) on a year column: the records themselves are sorted
rowsAfterPipeline_sortInPlace(rows_, sortKey_, sortDir_) ==
    IF sortKey_ \in {totalRangeKey, avgPerYearKey} THEN rows_
    ELSE sortRows(rows_, sortKey_, sortDir_)

\* What the rows array holds after the pipeline has run on it: filter and map
\* return new arrays and the spread makes new objects, so the in-place sort works
\* on the pipeline's own array and rows is untouched.
rowsAfterPipeline(rows_, sortKey_, sortDir_) == rows_

\* The filtered memo: the view.
filteredOf(rows_, dept_, award_, q_, sortKey_, sortDir_, topN_, visibleYears_, recDeactOnly_, allYears_) ==
    topNSlice(
        sortRows(preSort(rows_, dept_, award_, q_, visibleYears_, recDeactOnly_, allYears_),
                 sortKey_, sortDir_),
        topN_)

\* ------------------------------------------------------ export current view

exportHeader ==
    <<DEPT, STATE_CONTROL_NUMBER, PROGRAM_TITLE, AWARD_TYPE,
      <<"T","O","T","A","L"," ","(","R","a","n","g","e",")">>,
      <<"A","V","G"," ","/"," ","y","r">>,
      <<"R","e","c"," ","D","e","a","c","t"," ","(","l","a","s","t"," ","5","y",")">> >>

\* s.replaceAll('"', '""')
RECURSIVE doubleQuotes(_)
doubleQuotes(s) ==
    IF s = <<>> THEN <<>>
    ELSE (IF Head(s) = QuoteChar THEN <<QuoteChar, QuoteChar>> ELSE <<Head(s)>>)
         \o doubleQuotes(Tail(s))

quoted(s) == <<QuoteChar>> \o doubleQuotes(s) \o <<QuoteChar>>

exportLine(r, visibleYears_) ==
    join(<<r.dept, r.code, quoted(r.title), quoted(r.award),
           NumToText(r.totalRange),
           toFixed2(r.avgPerYear.num, r.avgPerYear.den * Scale),
           IF r.recDeact THEN <<"Y","e","s">> ELSE <<"N","o">> >>
         \o [i \in 1..Len(visibleYears_) |-> NumToText(YearValue(r, visibleYears_[i]))],
         <<",">>)

\* The text of the downloaded file.
csvOf(filtered_, visibleYears_) ==
    join(<<join(exportHeader \o visibleYears_, <<",">>)>>
         \o [i \in 1..Len(filtered_) |-> exportLine(filtered_[i], visibleYears_)],
         <<"\n">>)

\* ------------------------------------------------------------- the files

\* The files the fetch may return.  Each is a header line and data lines.
headerLine(yearLabels) ==
    join(<<DEPT, STATE_CONTROL_NUMBER, PROGRAM_TITLE, AWARD_TYPE>> \o yearLabels, <<",">>)

Y2019 == <<"2","0","1","9","-","2","0">>

Y2020 == <<"2","0","2","0","-","2","1">>

fileOf(lines) == join(lines, <<"\n">>) \o <<"\n">>

(* AC,101,Nu,AS,4,0
   AC,102,"T,x",AS,1,3
   BU,103,Nu,AS,0,7       two records tie on the total, one is not flagged *)
csvBasic ==
    fileOf(<<headerLine(<<Y2019, Y2020>>),
             <<"A","C",",","1","0","1",",","N","u",",","A","S",",","4",",","0">>,
             <<"A","C",",","1","0","2",",","\"","T",",","x","\"",",","A","S",",","1",",","3">>,
             <<"B","U",",","1","0","3",",","N","u",",","A","S",",","0",",","7">> >>)

(* "A,B",7,"S""h",AS,-3
   ,8,x,,n/a
   C, 9 ,y,AS,2.5
   D                      quoted fields, blanks, a negative, a fractional and a
                          non-numeric count, a short line *)
csvOdd ==
    fileOf(<<headerLine(<<Y2019>>),
             <<"\"","A",",","B","\"",",","7",",","\"","S","\"","\"","h","\"",",","A","S",",","-","3">>,
             <<",","8",",","x",",",",","n","/","a">>,
             <<"C",","," ","9"," ",",","y",",","A","S",",","2",".","5">>,
             <<"D">> >>)

\* a header and no data line
csvEmpty == fileOf(<<headerLine(<<Y2019>>)>>)

(* DEPT,PROGRAM TITLE
   AC,Nu                  no year column *)
csvNoYears ==
    fileOf(<<join(<<DEPT, PROGRAM_TITLE>>, <<",">>), <<"A","C",",","N","u">> >>)

(* AC,1,a,AS,20
   AC,2,b,CE,3
   AC,3,c,AS,20
   AC,4,d,CE,0
   AC,5,e,AS,3
   AC,6,f,AS,20           more records than the smallest Top N *)
csvSix ==
    fileOf(<<headerLine(<<Y2019>>),
             <<"A","C",",","1",",","a",",","A","S",",","2","0">>,
             <<"A","C",",","2",",","b",",","C","E",",","3">>,
             <<"A","C",",","3",",","c",",","A","S",",","2","0">>,
             <<"A","C",",","4",",","d",",","C","E",",","0">>,
             <<"A","C",",","5",",","e",",","A","S",",","3">>,
             <<"A","C",",","6",",","f",",","A","S",",","2","0">> >>)

CsvFiles == {csvBasic, csvOdd, csvEmpty, csvNoYears, csvSix}

\* The user chooses among the first MaxTopNOptions entries of the Top N list.
MaxTopNOptions == 2

\* What the user may type into the search box.
Queries == {<<>>, <<" ">>, <<"n","u">>}

\* ------------------------------------------------------------ the session
\* A select, the search box and the checkbox report a change only when the
\* value changes; the buttons can be pressed in any state.

VARIABLES
    pc,             \* where load() stands: "inflight", "failed" or "loaded"
    rows, loadError,
    dept, award, q, topN, sortKey, sortDir, recDeactOnly,
    rangeStart, rangeEnd,
    filtered,       \* the memoized view
    download,       \* the file the last handler handed to the browser, or NoFile
    input, output   \* argument and result of a function applied on its own

vars == <<pc, rows, loadError, dept, award, q, topN, sortKey, sortDir, recDeactOnly,
          rangeStart, rangeEnd, filtered, download, input, output>>

NoFile == <<"no file">>

\* No function has been applied.
Nothing == [done |-> FALSE, value |-> <<>>]

sessionVars == <<pc, rows, loadError, dept, award, q, topN, sortKey, sortDir, recDeactOnly,
                 rangeStart, rangeEnd, filtered, download>>

allYears == allYearsOf(rows)

visibleYears == visibleYearsOf(allYears, rangeStart, rangeEnd)

\* error / load info: the two banners of the page
errorBanner(loadError_) == loadError_ # ""

loadingBanner(rows_, loadError_) == Len(rows_) = 0 /\ loadError_ = ""

\* dropdown lists
allDepts == <<All>> \o SortedStrings(Range(uniq([i \in 1..Len(rows) |-> rows[i].dept])))

allAwards == <<All>> \o SortedStrings(Range(uniq([i \in 1..Len(rows) |-> rows[i].award])))

topNOptions == <<All, <<"5">>, <<"1","0">>, <<"2","0">>, <<"5","0">> >>

sortKeyOptions == <<totalRangeKey, avgPerYearKey>> \o visibleYears

\* The memos computed again from the rendered state: the view and the rows.
RenderMemos(rows_, allYears_, dept_, award_, q_, topN_, sortKey_, sortDir_, recDeactOnly_, range) ==
    /\ rangeStart' = range[1]
    /\ rangeEnd' = range[2]
    /\ filtered' = filteredOf(rows_, dept_, award_, q_, sortKey_, sortDir_, topN_,
                              visibleYearsOf(allYears_, range[1], range[2]),
                              recDeactOnly_, allYears_)
    /\ rows' = rowsAfterPipeline(rows_, sortKey_, sortDir_)

\* The render after the allYears memo is computed: the range initialisation
\* effect runs, and the other memos follow it.
RenderYears(rows_, allYears_, dept_, award_, q_, topN_, sortKey_, sortDir_, recDeactOnly_, rangeStart_, rangeEnd_) ==
    RenderMemos(rows_, allYears_, dept_, award_, q_, topN_, sortKey_, sortDir_,
                recDeactOnly_, rangeInitEffect(rows_, allYears_, rangeStart_, rangeEnd_))

\* The state after a handler's setState calls: the component renders, the range
\* initialisation effect runs, and the memos are computed again.
Render(rows_, dept_, award_, q_, topN_, sortKey_, sortDir_, recDeactOnly_, rangeStart_, rangeEnd_) ==
    /\ dept' = dept_
    /\ award' = award_
    /\ q' = q_
    /\ topN' = topN_
    /\ sortKey' = sortKey_
    /\ sortDir' = sortDir_
    /\ recDeactOnly' = recDeactOnly_
    /\ RenderYears(rows_, allYearsOf(rows_), dept_, award_, q_, topN_, sortKey_, sortDir_,
                   recDeactOnly_, rangeStart_, rangeEnd_)

InitSession ==
    /\ pc = "inflight"
    /\ rows = <<>>
    /\ loadError = ""
    /\ dept = All
    /\ award = All
    /\ q = <<>>
    /\ topN = All
    /\ sortKey = totalRangeKey
    /\ sortDir = "desc"
    /\ recDeactOnly = FALSE
    /\ rangeStart = NULL
    /\ rangeEnd = NULL
    /\ filtered = <<>>
    /\ download = NoFile

Init ==
    /\ InitSession
    /\ input = Nothing
    /\ output = Nothing

\* load(): the response is ok; its text is parsed and becomes the rows
LoadOk ==
    /\ pc = "inflight"
    /\ \E text \in CsvFiles :
           Render(parseCsvText(text), dept, award, q, topN, sortKey, sortDir,
                  recDeactOnly, rangeStart, rangeEnd)
    /\ pc' = "loaded"
    /\ download' = NoFile
    /\ UNCHANGED <<loadError, input, output>>

\* load(): fetch rejects
LoadNetworkError ==
    /\ pc = "inflight"
    /\ pc' = "failed"
    /\ loadError' = "TypeError: Failed to fetch"
    /\ download' = NoFile
    /\ Render(rows, dept, award, q, topN, sortKey, sortDir, recDeactOnly,
              rangeStart, rangeEnd)
    /\ UNCHANGED <<input, output>>

\* load(): the response is not ok; building the message reads csvPath, which is
\* not defined, and that error is the one caught
LoadHttpError ==
    /\ pc = "inflight"
    /\ pc' = "failed"
    /\ loadError' = "ReferenceError: csvPath is not defined"
    /\ download' = NoFile
    /\ Render(rows, dept, award, q, topN, sortKey, sortDir, recDeactOnly,
              rangeStart, rangeEnd)
    /\ UNCHANGED <<input, output>>

SetDept ==
    /\ \E d \in Range(allDepts) \ {dept} :
           Render(rows, d, award, q, topN, sortKey, sortDir, recDeactOnly,
                  rangeStart, rangeEnd)
    /\ download' = NoFile
    /\ UNCHANGED <<pc, loadError, input, output>>

SetAward ==
    /\ \E a \in Range(allAwards) \ {award} :
           Render(rows, dept, a, q, topN, sortKey, sortDir, recDeactOnly,
                  rangeStart, rangeEnd)
    /\ download' = NoFile
    /\ UNCHANGED <<pc, loadError, input, output>>

\* (mutant) typing in the search box clears the error banner
SetQ_clearsError ==
    /\ \E s \in Queries \ {q} :
           Render(rows, dept, award, s, topN, sortKey, sortDir, recDeactOnly,
                  rangeStart, rangeEnd)
    /\ download' = NoFile
    /\ loadError' = ""
    /\ UNCHANGED <<pc, input, output>>

SetQ ==
    /\ \E s \in Queries \ {q} :
           Render(rows, dept, award, s, topN, sortKey, sortDir, recDeactOnly,
                  rangeStart, rangeEnd)
    /\ download' = NoFile
    /\ UNCHANGED <<pc, loadError, input, output>>

SetTopN ==
    /\ \E n \in Range(SubSeq(topNOptions, 1, MaxTopNOptions)) \ {topN} :
           Render(rows, dept, award, q, n, sortKey, sortDir, recDeactOnly,
                  rangeStart, rangeEnd)
    /\ download' = NoFile
    /\ UNCHANGED <<pc, loadError, input, output>>

SetSortKey ==
    /\ \E k \in Range(sortKeyOptions) \ {sortKey} :
           Render(rows, dept, award, q, topN, k, sortDir, recDeactOnly,
                  rangeStart, rangeEnd)
    /\ download' = NoFile
    /\ UNCHANGED <<pc, loadError, input, output>>

SetSortDir ==
    /\ \E d \in {"desc", "asc"} \ {sortDir} :
           Render(rows, dept, award, q, topN, sortKey, d, recDeactOnly,
                  rangeStart, rangeEnd)
    /\ download' = NoFile
    /\ UNCHANGED <<pc, loadError, input, output>>

SetRecDeactOnly ==
    /\ \E b \in BOOLEAN \ {recDeactOnly} :
           Render(rows, dept, award, q, topN, sortKey, sortDir, b, rangeStart, rangeEnd)
    /\ download' = NoFile
    /\ UNCHANGED <<pc, loadError, input, output>>

\* From (year)
SetRangeStart(y) ==
    /\ y \in Range(allYears)
    /\ y # rangeStart
    /\ pc' = pc
    /\ Render(rows, dept, award, q, topN, sortKey, sortDir, recDeactOnly, y, rangeEnd)
    /\ download' = NoFile
    /\ UNCHANGED <<loadError, input, output>>

\* To (year)
SetRangeEnd(y) ==
    /\ y \in Range(allYears)
    /\ y # rangeEnd
    /\ pc' = pc
    /\ Render(rows, dept, award, q, topN, sortKey, sortDir, recDeactOnly, rangeStart, y)
    /\ download' = NoFile
    /\ UNCHANGED <<loadError, input, output>>

ResetRange ==
    /\ Len(allYears) # 0
    /\ pc' = pc
    /\ Render(rows, dept, award, q, topN, sortKey, sortDir, recDeactOnly,
              allYears[1], allYears[Len(allYears)])
    /\ download' = NoFile
    /\ UNCHANGED <<loadError, input, output>>

\* Export Filtered CSV
downloadFilteredCsv ==
    /\ download' = csvOf(filtered, visibleYears)
    /\ UNCHANGED <<pc, rows, loadError, dept, award, q, topN, sortKey, sortDir,
                   recDeactOnly, rangeStart, rangeEnd, filtered, input, output>>

Next ==
    \/ LoadOk
    \/ LoadNetworkError
    \/ LoadHttpError
    \/ SetDept
    \/ SetAward
    \/ SetQ
    \/ SetTopN
    \/ SetSortKey
    \/ SetSortDir
    \/ SetRecDeactOnly
    \/ \E y \in Range(allYears) : SetRangeStart(y)
    \/ \E y \in Range(allYears) : SetRangeEnd(y)
    \/ ResetRange
    \/ downloadFilteredCsv

Spec == Init /\ [][Next]_vars

\* ------------------------------------------- range resolution on its own

\* The year labels 2017-18, 2018-19, ... in order.
labelOf(i) == <<"2","0">> \o NatToText(16 + i) \o <<"-">> \o NatToText(17 + i)

\* The number of labels range resolution is applied to.
MaxRangeLabels == 4

RangeLabels == {labelOf(i) : i \in 1..MaxRangeLabels}

InitRange ==
    /\ InitSession
    /\ input \in [allYears   : {SortedStrings(S) : S \in SUBSET RangeLabels},
                  rangeStart : RangeLabels \cup {NULL, <<>>},
                  rangeEnd   : RangeLabels \cup {NULL, <<>>}]
    /\ output = Nothing

ResolveRange ==
    /\ ~output.done
    /\ output' = [done  |-> TRUE,
                  value |-> visibleYearsOf(input.allYears, input.rangeStart, input.rangeEnd)]
    /\ UNCHANGED <<sessionVars, input>>

NextRange == ResolveRange

SpecRange == InitRange /\ [][NextRange]_vars

\* ------------------------------------------------ the assessor on its own

\* The number of labels of the largest year index the assessor is applied to.
MaxAssessYears == 6

\* The counts of a record: zero, the numbers around the peak threshold, and the
\* total threshold.
AssessCounts ==
    {0, (REC_MIN_PEAK_5Y - 1) * Scale, REC_MIN_PEAK_5Y * Scale, REC_MIN_TOTAL_5Y * Scale}

AssessIndexes == {[i \in 1..k |-> labelOf(i)] : k \in 0..MaxAssessYears}

InitAssess ==
    /\ InitSession
    /\ \E idx \in AssessIndexes :
       \E present \in SUBSET Range(idx) :
       \E counts \in [present -> AssessCounts] :
           input = [row |-> [years |-> counts], allYears |-> idx]
    /\ output = Nothing

Assess ==
    /\ ~output.done
    /\ output' = [done |-> TRUE, value |-> assessRecDeact(input.row, input.allYears)]
    /\ UNCHANGED <<sessionVars, input>>

NextAssess == Assess

SpecAssess == InitAssess /\ [][NextAssess]_vars

\* ------------------------------------------------------------- the claims

\* C1: a failed load is shown as an error state distinct from "still loading" and
\* from "loaded but empty": a load in flight shows the loading banner alone, a
\* failed load the error banner alone, and a load that succeeded with zero
\* records neither of them.
C1_LoadStatusDistinct ==
    /\ pc = "inflight" => loadingBanner(rows, loadError) /\ ~errorBanner(loadError)
    /\ pc = "failed" => errorBanner(loadError) /\ ~loadingBanner(rows, loadError)
    /\ (pc = "loaded" /\ Len(rows) = 0) =>
           ~errorBanner(loadError) /\ ~loadingBanner(rows, loadError)

\* C2: once the load has failed, the error message stays set and the record set
\* stays empty, whatever the user does next; the load is never tried again.
C2_FailurePersists ==
    [][pc = "failed" =>
          /\ loadError # ""
          /\ rows = <<>>
          /\ pc' = "failed"
          /\ loadError' = loadError
          /\ rows' = rows]_vars

\* C2 witness: after the failure the user has searched, sorted and exported.
C2_Witness ==
    /\ pc = "failed"
    /\ q # <<>>
    /\ sortDir = "asc"
    /\ download # NoFile

\* C3: the range is set to (first label, last label) exactly once, in the step in
\* which the records and the year index become non-empty; from then on From sets
\* the start to the chosen year and leaves the end, To sets the end and leaves the
\* start, and a step that changes the range is a step of From, To or Reset Range:
\* it changes no record, load status, filter or sort parameter, and it sets the
\* start or the end to a year of the index, or sets the default.
C3_RangeInitOnce ==
    [][/\ (rangeStart = NULL \/ rangeEnd = NULL) =>
              \/ /\ rangeStart' = NULL
                 /\ rangeEnd' = NULL
                 /\ (Len(rows') = 0 \/ Len(allYears') = 0)
              \/ /\ Len(rows) = 0
                 /\ Len(rows') # 0
                 /\ rangeStart' = allYears'[1]
                 /\ rangeEnd' = allYears'[Len(allYears')]
       /\ (rangeStart # NULL /\ rangeEnd # NULL) =>
              /\ \A y \in Range(allYears) :
                     (rangeStart' = y /\ rangeEnd' = rangeEnd) \/ ~SetRangeStart(y)
              /\ \A y \in Range(allYears) :
                     (rangeEnd' = y /\ rangeStart' = rangeStart) \/ ~SetRangeEnd(y)
              /\ \/ rangeStart' = rangeStart /\ rangeEnd' = rangeEnd
                 \/ /\ UNCHANGED <<pc, rows, loadError, dept, award, q, topN, sortKey,
                                  sortDir, recDeactOnly>>
                    /\ \/ rangeStart' \in Range(allYears) /\ rangeEnd' = rangeEnd
                       \/ rangeEnd' \in Range(allYears) /\ rangeStart' = rangeStart
                       \/ /\ rangeStart' = allYears[1]
                          /\ rangeEnd' = allYears[Len(allYears)]]_vars

\* C3 witness: the user has chosen a range that is not the default.
C3_Witness ==
    /\ pc = "loaded"
    /\ rangeStart # NULL
    /\ rangeStart # allYears[1]
    /\ rangeEnd = rangeStart

\* The position of a label in an index, 0 when absent.
C4_Pos(idx, y) == IF \E i \in 1..Len(idx) : idx[i] = y
                  THEN CHOOSE i \in 1..Len(idx) : idx[i] = y
                  ELSE 0

\* C4: when both labels are in the index the visible years are the inclusive
\* contiguous slice between their positions, the same for (start, end) and for
\* (end, start); when either is not, they are the entire index.
C4_RangeResolution ==
    output.done =>
        LET idx == input.allYears
            a   == C4_Pos(idx, input.rangeStart)
            b   == C4_Pos(idx, input.rangeEnd)
            lo  == IF a <= b THEN a ELSE b
            hi  == IF a <= b THEN b ELSE a
        IN IF a # 0 /\ b # 0
           THEN /\ output.value = [k \in 1..(hi - lo + 1) |-> idx[lo + k - 1]]
                /\ output.value = visibleYearsOf(idx, input.rangeEnd, input.rangeStart)
           ELSE output.value = idx

\* C4 witness: a start after the end, both in the index.
C4_Witness ==
    /\ output.done
    /\ C4_Pos(input.allYears, input.rangeEnd) > 0
    /\ C4_Pos(input.allYears, input.rangeStart) > C4_Pos(input.allYears, input.rangeEnd) + 1
    /\ Len(output.value) = 3

RECURSIVE C5_Sum(_, _)
C5_Sum(f, S) ==
    IF S = {} THEN 0
    ELSE LET i == CHOOSE i \in S : TRUE IN f[i] + C5_Sum(f, S \ {i})

\* C5: the assessor looks at the last 5 labels of the full index (all of them when
\* there are fewer) and flags exactly when (total5 < 15 and avg5 < 3) or at least
\* 3 of the counts are zero or the peak is below 3; absent years count as 0 and
\* avg5 divides by the number of labels used; with an empty index the result is
\* flag = false, reason "No years".
C5_AssessRule ==
    output.done =>
        LET idx   == input.allYears
            n     == IF Len(idx) < 5 THEN Len(idx) ELSE 5
            used  == (Len(idx) - n + 1)..Len(idx)
            count == [i \in used |->
                        IF idx[i] \in DOMAIN input.row.years
                        THEN input.row.years[idx[i]] ELSE 0]
            total == C5_Sum(count, used)
            zeros == Cardinality({i \in used : count[i] = 0})
        IN IF n = 0
           THEN output.value = [flag |-> FALSE, reason |-> "No years"]
           ELSE output.value.flag =
                    \/ total < 15 * Scale /\ total < 3 * Scale * n
                    \/ zeros >= 3
                    \/ \A i \in used : count[i] < 3 * Scale

\* C5 witness: an index of more than 5 labels and a record that is not flagged
\* although the year before the last five is empty.
C5_Witness ==
    /\ output.done
    /\ Len(input.allYears) > 5
    /\ ~output.value.flag
    /\ input.allYears[1] \notin DOMAIN input.row.years

C6_Record(v) ==
    [dept |-> v.dept, code |-> v.code, title |-> v.title, award |-> v.award,
     years |-> v.years]

C6_Assessed(v) == <<C6_Record(v), v.recDeact, v.recDeactReason>>

\* The view under the default full range, every row of it.
C6_FullRangeView ==
    filteredOf(rows, dept, award, q, totalRangeKey, "desc", All, allYears, FALSE, allYears)

\* C6: the flag and the reason of every row of the view are those the record has
\* under the default full range, while totalRange is the sum over the visible
\* years and avgPerYear is totalRange over max(1, number of visible years).
C6_FlagIgnoresRange ==
    LET full == {C6_Assessed(w) : w \in Range(C6_FullRangeView)}
        vis  == visibleYears
        m    == IF Len(vis) > 1 THEN Len(vis) ELSE 1
    IN \A i \in 1..Len(filtered) :
           /\ C6_Assessed(filtered[i]) \in full
           /\ filtered[i].totalRange =
                  C5_Sum([k \in 1..Len(vis) |-> YearValue(filtered[i], vis[k])], 1..Len(vis))
           /\ filtered[i].avgPerYear.num * m
                  = filtered[i].totalRange * filtered[i].avgPerYear.den

\* C6 witness: under a narrowed range a record whose total over the range is 0 is
\* still not flagged.
C6_Witness ==
    /\ Len(visibleYears) < Len(allYears)
    /\ \E i \in 1..Len(filtered) : ~filtered[i].recDeact /\ filtered[i].totalRange = 0

\* The sort key's value of a view row, in units of 1 / den.
C7_Key(v) ==
    IF sortKey = totalRangeKey THEN v.totalRange * v.avgPerYear.den
    ELSE IF sortKey = avgPerYearKey THEN v.avgPerYear.num
    ELSE YearValue(v, sortKey) * v.avgPerYear.den

C7_IsPrefix(a, b) == Len(a) <= Len(b) /\ a = SubSeq(b, 1, Len(a))

\* The rows of view that have the key k, in their order.
C7_WithKey(view, keys, k) ==
    LET idx == SelectSeq([i \in 1..Len(view) |-> i], LAMBDA i : keys[i] = k)
    IN [n \in 1..Len(idx) |-> view[idx[n]]]

\* C7: the rows of the view are in the chosen numeric order of the sort key, and
\* the rows of one key value are in the order they had before the sort.
C7_SortStable ==
    LET pre   == preSort(rows, dept, award, q, visibleYears, recDeactOnly, allYears)
        keysP == [i \in 1..Len(pre) |-> C7_Key(pre[i])]
        keysF == [i \in 1..Len(filtered) |-> C7_Key(filtered[i])]
    IN /\ \A i, j \in 1..Len(filtered) :
              i < j => IF sortDir = "asc" THEN keysF[i] <= keysF[j] ELSE keysF[i] >= keysF[j]
       /\ \A k \in Range(keysF) :
              C7_IsPrefix(C7_WithKey(filtered, keysF, k), C7_WithKey(pre, keysP, k))

\* C7 witness: the sort has moved a row to the front, and two different rows with
\* the same key follow each other.
C7_Witness ==
    /\ Len(filtered) = Len(rows)
    /\ Len(filtered) >= 3
    /\ C6_Record(filtered[1]) # rows[1]
    /\ \E i \in 1..(Len(filtered) - 1) :
           C7_Key(filtered[i]) = C7_Key(filtered[i + 1]) /\ filtered[i] # filtered[i + 1]

\* C8: parsing the exported text and normalizing its rows gives, for every
\* exported row and every visible year, the count of the view row.
C8_ExportRoundTrip ==
    download # NoFile =>
        LET back == parseCsvText(download)
        IN /\ Len(back) = Len(filtered)
           /\ \A i \in 1..Len(filtered) : \A y \in Range(visibleYears) :
                  YearValue(back[i], y) = YearValue(filtered[i], y)

\* C9: every value of a record's years mapping is a non-negative integer count.
C9_CountsNonNegativeIntegers ==
    \A i \in 1..Len(rows) : \A y \in DOMAIN rows[i].years :
        rows[i].years[y] >= 0 /\ rows[i].years[y] % Scale = 0

=============================================================================
